---- MODULE Spec2Model ----
(***************************************************************************)
(* Consumption Gatekeeper (SubscriptionConsumptionService), its callback   *)
(* endpoint and the CircuitBreaker of the pellax/memorymeet repository.    *)
(*                                                                         *)
(* Hours are fixed-point integers: one unit is a tenth of a minute, so     *)
(* that minutes/60, the 0.01 h tolerance and the 0.1 h status probe are    *)
(* all exact.  Request coroutines interleave at their awaits (asyncio);    *)
(* breaker callers are threads that interleave between statements.         *)
(***************************************************************************)
EXTENDS Integers, Sequences, FiniteSets, TLC

(* ----------------------------- units ---------------------------------- *)

MinutesPerHour == 60

Minutes(m) == m * 10

Hours(h) == Minutes(h * MinutesPerHour)

\* abs(total - limit) > 0.01 in Subscription._validate_domain_invariants
Tolerance == Hours(1) \div 100

\* the "consulta minima" of obtener_estado_consumo: 0.1 hours
StatusProbeHours == Hours(1) \div 10

Abs(x) == IF x < 0 THEN 0 - x ELSE x

(* ----------------------------- bounds --------------------------------- *)

\* requests concurrent workers may start in one run
MaxOps == 2

\* requests a single worker may start in one run
MaxSeqOps == 4

\* calls the breaker's callers may start in one run
MaxCalls == 4

\* ticks of the breaker's clock
MaxTime == 3

MaxRetries == 3

\* create_webhook_trigger: max_retries of the development environment
DevelopmentMaxRetries == 2

EstimatedMinutes == {60, 480}

MaxDispatches == 4

(* ------------------------- Subscription entity ------------------------ *)

SubscriptionStatus == {"active", "inactive", "suspended", "cancelled", "trial"}

NoSub == [status |-> "none"]

NoUser == [exists |-> FALSE]

Subscription(st, limit, avail, consumed) ==
    [status |-> st, monthly_hours_limit |-> limit,
     available_hours |-> avail, consumed_hours |-> consumed]

\* TRUE iff __post_init__ raises no ValueError for these hour fields
validate_domain_invariants_loose(s) ==
    /\ s.monthly_hours_limit > 0
    /\ s.available_hours >= 0
    /\ s.consumed_hours >= 0

validate_domain_invariants(s) ==
    /\ s.monthly_hours_limit > 0
    /\ s.available_hours >= 0
    /\ s.consumed_hours >= 0
    /\ ~(Abs((s.consumed_hours + s.available_hours) - s.monthly_hours_limit) > Tolerance)

has_available_hours_any_status(s, required_hours) ==
    s.available_hours >= required_hours

has_available_hours(s, required_hours) ==
    /\ s.status = "active"
    /\ s.available_hours >= required_hours

ValueError == [status |-> "ValueError"]

\* suspend(): a new Subscription with status SUSPENDED, available_hours 0.0 and
\* the other fields copied, validated by __post_init__
suspend(s) ==
    LET n == Subscription("suspended", s.monthly_hours_limit, 0, s.consumed_hours)
    IN  IF validate_domain_invariants(n) THEN n ELSE ValueError

\* consume_hours builds a new Subscription, whose __post_init__ validates it
consume_hours(s, hours_to_consume) ==
    IF ~has_available_hours(s, hours_to_consume)
    THEN ValueError
    ELSE LET n == Subscription(s.status, s.monthly_hours_limit,
                               s.available_hours - hours_to_consume,
                               s.consumed_hours + hours_to_consume)
         IN  IF validate_domain_invariants(n) THEN n ELSE ValueError

\* (consumed / limit) * 100, truncated to a whole percent
get_consumption_percentage(s) ==
    IF s.monthly_hours_limit = 0 THEN 0
    ELSE (s.consumed_hours * 100) \div s.monthly_hours_limit

(* ------------------------------ User entity --------------------------- *)

User(active, verified) ==
    [exists |-> TRUE, is_active |-> active, is_verified |-> verified]

can_access_system(u) == u.is_active /\ u.is_verified

(* ------------------------- inputs of the model ------------------------ *)

UserIds == {"u1"}

Workers == {"w1", "w2"}

ProcessingIds == {"p1", "p2"}

Nobody == "nobody"

\* required_hours / hours_to_consume of Authorize and Debit requests
HoursInputs == {Hours(0 - 10), 0, Hours(10), Hours(75), Hours(100)}

\* actual_duration_minutes of a callback (validated gt=0, le=480)
CallbackMinutes == {30, 480}

CallbackStatuses == {"completed", "failed", "FAILED", "cancelled"}

\* the ledgers a store can hold: the ones the constructor accepts
LedgerGrid ==
    { Subscription(st, Hours(100), a, c) :
        st \in SubscriptionStatus,
        a \in {0, Hours(75) - Tolerance, Hours(75)},
        c \in {Hours(25), Hours(100)} }

StoredLedgers == { s \in LedgerGrid : validate_domain_invariants(s) }

\* Subscription values the constructor accepts, with balances from an empty
\* to a full ledger and hour sums within the tolerance of the limit
EntityLedgers ==
    { s \in { Subscription(st, limit, a, (limit - a) + d) :
                st \in SubscriptionStatus,
                limit \in {Hours(10), Hours(100)},
                a \in {0, Tolerance, Hours(1), Hours(10)},
                d \in {0 - Tolerance, 0, Tolerance} } :
        validate_domain_invariants(s) }

NotCalledYet == [status |-> "not called"]

StoredUsers == {NoUser} \cup { User(a, v) : a \in BOOLEAN, v \in BOOLEAN }

(* ------------------------------- state -------------------------------- *)

VARIABLES
    users,       \* user store: UserIds -> User or NoUser
    subs,        \* committed subscription store: UserIds -> Subscription or NoSub
    pending,     \* Workers -> the uncommitted write of the worker's transaction
    rowlock,     \* UserIds -> the worker whose transaction wrote the row, or Nobody
    pc,          \* Workers -> position of the request coroutine
    req,         \* Workers -> the request being served
    vsub,        \* Workers -> verification.subscription, as read from the store
    updated,     \* Workers -> updated_subscription = consume_hours(...)
    result,      \* Workers -> value returned or exception raised by the service
    response,    \* Workers -> what the router endpoint answered, if one served the request
    ncalls,      \* Workers -> store lookups made by the current request
    txlog,       \* Workers -> transaction calls made by the current request
    opsStarted,  \* requests started so far
    opLimit,     \* requests that may be started in this run
    sub0,        \* history: the store at start
    debited,     \* history: UserIds -> hours of the Debits that returned success
    charged,     \* history: ProcessingIds -> successful debits made for the id
    failedPre,   \* history: UserIds -> ledger read by the last Debit that failed
                 \*          in its transaction, NoSub once a later Debit commits
    failure_threshold,  \* CircuitBreaker.failure_threshold
    timeout,            \* CircuitBreaker.timeout
    state,              \* CircuitBreaker.state
    failure_count,      \* CircuitBreaker.failure_count
    last_failure_time,  \* CircuitBreaker.last_failure_time, NoTime for None
    total_calls,        \* CircuitBreaker.total_calls
    successful_calls,   \* CircuitBreaker.successful_calls
    failed_calls,       \* CircuitBreaker.failed_calls
    now,                \* time.time()
    tpc,                \* Threads -> position of the caller inside call()
    outcome,            \* Threads -> how the caller's last call() ended
    observed,           \* history: Threads -> what the call's state check saw
    invoked,            \* history: Threads -> the call has invoked func
    consecutive,        \* history: counted failures since the last success or reset
    n8n_webhook_url,    \* WebhookTrigger.n8n_webhook_url, NoUrl for None
    max_retries,        \* WebhookTrigger.max_retries
    wpc,                \* position inside trigger_n8n_workflow
    attempt,            \* trigger_n8n_workflow: the loop variable
    posts,              \* history: http_client.post calls made by the current trigger call
    sleeps,             \* history: the multiples of retry_delay_seconds slept by it
    lastAttempt,        \* history: what the latest POST met
    wresp,              \* the WebhookResponse the latest trigger call returned
    dispatches,         \* trigger calls started so far
    failedRun,          \* history: trigger calls in a row that returned without SENT
    service,            \* which transcription service runs the retry loop
    retry_strategy,     \* TranscriptionServiceV2: config.retry_strategy
    svc_max_retries,    \* the service's max_retries
    provider,           \* TranscriptionServiceV2: the class of config.provider
    provider_available, \* DeepgramProvider._available of that provider
    rpc,                \* position inside the retry loop
    rattempt,           \* the retry loop's variable attempt
    rcalls,             \* history: calls the current loop made through the breaker
    rsleeps,            \* history: the attempts after which the current loop slept
    rlast,              \* history: how the loop's latest attempt ended
    rerror,             \* what the loop raised to its caller
    backoff,            \* a RetryStrategy object: its class and constructor arguments
    battempt,           \* the attempt its latest call was given
    bdelay,             \* what get_delay returned or raised for it
    bretry,             \* what should_retry returned for it
    entity,             \* a Subscription value
    derived             \* what the latest method called on it returned or raised

gkvars == <<users, subs, pending, rowlock, pc, req, vsub, updated, result, response,
            ncalls, txlog, opsStarted, opLimit, sub0, debited, charged, failedPre>>

cbvars == <<failure_threshold, timeout, state, failure_count, last_failure_time,
            total_calls, successful_calls, failed_calls, now, tpc, outcome,
            observed, invoked, consecutive>>

whvars == <<n8n_webhook_url, max_retries, wpc, attempt, posts, sleeps, lastAttempt,
            wresp, dispatches, failedRun>>

rtvars == <<service, retry_strategy, svc_max_retries, provider,
            provider_available, rpc, rattempt, rcalls, rsleeps,
            rlast, rerror>>

bovars == <<backoff, battempt, bdelay, bretry>>

envars == <<entity, derived>>

vars == <<gkvars, cbvars, whvars, rtvars, bovars, envars>>

NoReq == [kind |-> "none"]

NoResult == [kind |-> "none"]

NoCalls == [user |-> 0, sub |-> 0]

(* ------------------------------ exceptions ---------------------------- *)

InvalidConsumptionException(user_id, invalid_hours, reason) ==
    [kind |-> "InvalidConsumptionException", error_code |-> "INVALID_CONSUMPTION",
     user_id |-> <<user_id>>, invalid_hours |-> invalid_hours, reason |-> reason]

\* UserNotFoundException(x) stores x itself in its user_id field
UserNotFoundException(user_id_arg) ==
    [kind |-> "UserNotFoundException", error_code |-> "USER_NOT_FOUND",
     user_id |-> user_id_arg]

SubscriptionNotFoundException(user_id) ==
    [kind |-> "SubscriptionNotFoundException", error_code |-> "SUBSCRIPTION_NOT_FOUND",
     user_id |-> <<user_id>>]

SubscriptionSuspendedException(user_id) ==
    [kind |-> "SubscriptionSuspendedException", error_code |-> "SUBSCRIPTION_SUSPENDED",
     user_id |-> <<user_id>>]

InsufficientHoursException(user_id, required_hours, available_hours, subscription_status) ==
    [kind |-> "InsufficientHoursException", error_code |-> "INSUFFICIENT_HOURS",
     user_id |-> <<user_id>>, required_hours |-> required_hours,
     available_hours |-> available_hours, subscription_status |-> subscription_status]

\* the exception a failing rollback_transaction raises out of the except block
RollbackError == [kind |-> "RollbackError"]

Passed == [kind |-> "passed"]

(* ---------------------- store port (SubscriptionRepository) ----------- *)

\* get_active_subscription_by_user_id: the user's subscription unless it is
\* missing, inactive or cancelled
get_active_subscription_by_user_id(user_id) ==
    IF subs[user_id] = NoSub THEN NoSub
    ELSE IF subs[user_id].status \in {"active", "trial", "suspended"}
         THEN subs[user_id] ELSE NoSub

get_user_by_id(user_id) == users[user_id]

(* --------------------- verificar_consumo_disponible ------------------- *)

ValidateInput_positive_only(user_id, required_hours) ==
    IF required_hours < 0
    THEN InvalidConsumptionException(user_id, required_hours, "Required hours must be positive")
    ELSE Passed

\* validation of the input (lines 121-127)
ValidateInput(user_id, required_hours) ==
    IF required_hours <= 0
    THEN InvalidConsumptionException(user_id, required_hours, "Required hours must be positive")
    ELSE Passed

\* checks 1 and 2, on the user returned by the user store (lines 129-136)
CheckUser(user_id, user) ==
    IF user = NoUser THEN UserNotFoundException(<<user_id>>)
    ELSE IF ~can_access_system(user)
         THEN UserNotFoundException(<<"User ", user_id, " cannot access system">>)
         ELSE Passed

VerificationResult(s, required_hours) ==
    [kind |-> "verified", can_consume |-> TRUE, subscription |-> s,
     remaining_hours |-> s.available_hours - required_hours,
     consumption_percentage |-> get_consumption_percentage(s)]

CheckSubscription_hours_first(user_id, s, required_hours) ==
    IF s = NoSub THEN SubscriptionNotFoundException(user_id)
    ELSE IF ~has_available_hours(s, required_hours)
         THEN InsufficientHoursException(user_id, required_hours,
                                         s.available_hours, s.status)
    ELSE IF s.status = "suspended" THEN SubscriptionSuspendedException(user_id)
    ELSE VerificationResult(s, required_hours)

CheckSubscription_remaining_is_available(user_id, s, required_hours) ==
    IF s = NoSub THEN SubscriptionNotFoundException(user_id)
    ELSE IF s.status = "suspended" THEN SubscriptionSuspendedException(user_id)
    ELSE IF ~has_available_hours(s, required_hours)
         THEN InsufficientHoursException(user_id, required_hours,
                                         s.available_hours, s.status)
    ELSE [VerificationResult(s, required_hours) EXCEPT !.remaining_hours = s.available_hours]

\* checks 3, 4, 5 and the metrics, on the subscription returned by the
\* subscription store (lines 138-171)
CheckSubscription(user_id, s, required_hours) ==
    IF s = NoSub THEN SubscriptionNotFoundException(user_id)
    ELSE IF s.status = "suspended" THEN SubscriptionSuspendedException(user_id)
    ELSE IF ~has_available_hours(s, required_hours)
         THEN InsufficientHoursException(user_id, required_hours,
                                         s.available_hours, s.status)
    ELSE VerificationResult(s, required_hours)

(* ------------------------------ requests ------------------------------ *)

\* actualizar_registro_consumo(user_id, duration_minutes, meeting_id): the hours
\* it debits through consumir_horas are duration_minutes / 60
actualizar_registro_consumo(duration_minutes) == Minutes(duration_minutes)

Lower_case_sensitive(s) == s

\* str.lower() on the statuses the model sends
Lower(s) == IF s = "FAILED" THEN "failed" ELSE s

AuthorizeRequests ==
    { [kind |-> "authorize", user_id |-> u, hours |-> h] :
        u \in UserIds, h \in HoursInputs }

DebitRequests ==
    { [kind |-> "debit", user_id |-> u, hours |-> h] :
        u \in UserIds, h \in HoursInputs }

\* obtener_estado_consumo(user_id) = verificar_consumo_disponible(user_id, 0.1)
StatusRequests ==
    { [kind |-> "status", user_id |-> u, hours |-> StatusProbeHours] : u \in UserIds }

CallbackRequests ==
    { [kind |-> "callback", user_id |-> u, hours |-> actualizar_registro_consumo(m),
       processing_id |-> p, actual_duration_minutes |-> m, processing_status |-> st] :
        u \in UserIds, m \in CallbackMinutes, p \in ProcessingIds,
        st \in CallbackStatuses }

\* iniciar_procesamiento_reunion: estimated_hours = estimated_duration_minutes / 60.0
StartRequests ==
    { [kind |-> "start", user_id |-> u, hours |-> Minutes(m),
       estimated_duration_minutes |-> m] :
        u \in UserIds, m \in EstimatedMinutes }

IsDebit_with_start(r) == r.kind \in {"debit", "callback", "start"}

IsDebit(r) == r.kind \in {"debit", "callback"}

Idle(w) == pc[w] \in {"idle", "done"}

(* -------------------------- router endpoints -------------------------- *)

NoResponse == [kind |-> "none"]

\* an Optional field left at None
NoValue == 0 - 1

\* raise HTTPException(status_code, detail = {"error": error, ...})
HTTPException(status_code, error) ==
    [kind |-> "HTTPException", status_code |-> status_code, error |-> error]

N8NCallbackResponse(success, processing_id, consumption_updated, remaining_hours, consumption_percentage) ==
    [kind |-> "N8NCallbackResponse", status_code |-> 200, success |-> success,
     processing_id |-> processing_id, consumption_updated |-> consumption_updated,
     remaining_hours |-> remaining_hours,
     consumption_percentage |-> consumption_percentage]

\* n8n_processing_callback once the consumption update has returned or raised:
\* the response is built from update_result.remaining_hours and
\* update_result.consumption_percentage inside the try block, so a result
\* without one of these attributes ends in the except Exception branch
n8n_processing_callback(callback_data, res) ==
    IF res.kind = "consumed"
    THEN IF {"remaining_hours", "consumption_percentage"} \subseteq DOMAIN res
         THEN N8NCallbackResponse(TRUE, callback_data.processing_id, TRUE,
                                  res.remaining_hours,
                                  res.consumption_percentage)
         ELSE HTTPException(500, "INTERNAL_ERROR")
    ELSE IF res.kind = "UserNotFoundException"
    THEN HTTPException(404, "USER_NOT_FOUND")
    ELSE IF res.kind = "SubscriptionNotFoundException"
    THEN HTTPException(404, "SUBSCRIPTION_NOT_FOUND")
    ELSE IF res.kind = "DatabaseTransactionException"
    THEN HTTPException(500, "CONSUMPTION_UPDATE_FAILED")
    ELSE HTTPException(500, "INTERNAL_ERROR")

\* what the endpoint serving the request answers when the service call ends;
\* Authorize, Debit and Status are calls on the service itself
ProcessStartResponse(authorized, remaining_hours, consumption_percentage, workflow_trigger_url) ==
    [kind |-> "ProcessStartResponse", status_code |-> 200, authorized |-> authorized,
     remaining_hours |-> remaining_hours,
     consumption_percentage |-> consumption_percentage,
     workflow_trigger_url |-> workflow_trigger_url]

\* iniciar_procesamiento_reunion when verificar_consumo_disponible has ended with
\* res: the except clauses of the outer try; an authorized request goes on to
\* the dispatch and has no answer yet
iniciar_procesamiento_reunion_verified(res) ==
    IF res.kind = "verified" THEN NoResponse
    ELSE IF res.kind = "InsufficientHoursException"
    THEN HTTPException(403, "INSUFFICIENT_HOURS")
    ELSE IF res.kind = "UserNotFoundException"
    THEN HTTPException(404, "USER_NOT_FOUND")
    ELSE IF res.kind = "SubscriptionNotFoundException"
    THEN HTTPException(403, "NO_ACTIVE_SUBSCRIPTION")
    ELSE IF res.kind = "InvalidConsumptionException"
    THEN HTTPException(400, "INVALID_CONSUMPTION")
    ELSE HTTPException(500, "UNHANDLED")

EndpointResponse(r, res) ==
    IF res.kind = "none" THEN NoResponse
    ELSE IF r.kind = "callback" THEN n8n_processing_callback(r, res)
    ELSE IF r.kind = "start" THEN iniciar_procesamiento_reunion_verified(res)
    ELSE NoResponse

(* ------------------------- request coroutines ------------------------- *)

\* entry into verificar_consumo_disponible, up to its first await
Enter(w, r) ==
    /\ Idle(w)
    /\ opsStarted < opLimit
    /\ opsStarted' = opsStarted + 1
    /\ req' = [req EXCEPT ![w] = r]
    /\ ncalls' = [ncalls EXCEPT ![w] = NoCalls]
    /\ txlog' = [txlog EXCEPT ![w] = << >>]
    /\ vsub' = [vsub EXCEPT ![w] = NoSub]
    /\ updated' = [updated EXCEPT ![w] = NoSub]
    /\ LET v == ValidateInput(r.user_id, r.hours)
       IN  IF v = Passed
           THEN /\ pc' = [pc EXCEPT ![w] = "get_user"]
                /\ result' = [result EXCEPT ![w] = NoResult]
                /\ response' = [response EXCEPT ![w] = EndpointResponse(r, NoResult)]
           ELSE /\ pc' = [pc EXCEPT ![w] = "done"]
                /\ result' = [result EXCEPT ![w] = v]
                /\ response' = [response EXCEPT ![w] = EndpointResponse(r, v)]
    /\ UNCHANGED <<cbvars, bovars, envars, rtvars, whvars, opLimit, users, subs, pending, rowlock, sub0, debited, charged, failedPre>>

\* Authorize: verificar_consumo_disponible
StartAuthorize(w) == \E r \in AuthorizeRequests : Enter(w, r)

\* Debit: consumir_horas, which first runs verificar_consumo_disponible
StartDebit(w) == \E r \in DebitRequests : Enter(w, r)

\* Status: obtener_estado_consumo
StartStatus(w) == \E r \in StatusRequests : Enter(w, r)

\* n8n_processing_callback with a status that is not "failed": the consumption
\* update debits actual_duration_minutes / 60 hours through the Gatekeeper
StartCallback(w) ==
    \E r \in CallbackRequests :
        /\ Lower(r.processing_status) # "failed"
        /\ Enter(w, r)

\* n8n_processing_callback with status "failed": acknowledged, no update
CallbackFailed(w) ==
    \E r \in CallbackRequests :
        /\ Lower(r.processing_status) = "failed"
        /\ Idle(w)
        /\ opsStarted < opLimit
        /\ opsStarted' = opsStarted + 1
        /\ req' = [req EXCEPT ![w] = r]
        /\ ncalls' = [ncalls EXCEPT ![w] = NoCalls]
        /\ txlog' = [txlog EXCEPT ![w] = << >>]
        /\ vsub' = [vsub EXCEPT ![w] = NoSub]
        /\ updated' = [updated EXCEPT ![w] = NoSub]
        /\ pc' = [pc EXCEPT ![w] = "done"]
        /\ result' = [result EXCEPT ![w] = [kind |-> "acknowledged"]]
        /\ response' = [response EXCEPT ![w] =
                          N8NCallbackResponse(TRUE, r.processing_id, FALSE, NoValue, NoValue)]
        /\ UNCHANGED <<cbvars, bovars, envars, rtvars, whvars, opLimit, users, subs, pending, rowlock, sub0, debited, charged, failedPre>>

\* await get_user_by_id, then checks 1 and 2
GetUser(w) ==
    /\ pc[w] = "get_user"
    /\ ncalls' = [ncalls EXCEPT ![w].user = @ + 1]
    /\ LET v == CheckUser(req[w].user_id, get_user_by_id(req[w].user_id))
       IN  IF v = Passed
           THEN /\ pc' = [pc EXCEPT ![w] = "get_sub"]
                /\ UNCHANGED <<result, response>>
           ELSE /\ pc' = [pc EXCEPT ![w] = "done"]
                /\ result' = [result EXCEPT ![w] = v]
                /\ response' = [response EXCEPT ![w] = EndpointResponse(req[w], v)]
    /\ UNCHANGED <<cbvars, bovars, envars, rtvars, whvars, opLimit, users, subs, pending, rowlock, req, vsub, updated, txlog,
                   opsStarted, sub0, debited, charged, failedPre>>

\* await get_active_subscription_by_user_id, then checks 3 to 5; a Debit goes
\* on to consume_hours on the entity it has just read (consumir_horas, step 2)
GetSubscription(w) ==
    /\ pc[w] = "get_sub"
    /\ ncalls' = [ncalls EXCEPT ![w].sub = @ + 1]
    /\ LET s == get_active_subscription_by_user_id(req[w].user_id)
           v == CheckSubscription(req[w].user_id, s, req[w].hours)
       IN  /\ vsub' = [vsub EXCEPT ![w] = s]
           /\ IF v.kind # "verified"
              THEN /\ pc' = [pc EXCEPT ![w] = "done"]
                   /\ result' = [result EXCEPT ![w] = v]
                   /\ response' = [response EXCEPT ![w] = EndpointResponse(req[w], v)]
                   /\ UNCHANGED updated
              ELSE IF ~IsDebit(req[w])
              THEN /\ pc' = [pc EXCEPT ![w] = IF req[w].kind = "start"
                                              THEN "dispatch" ELSE "done"]
                   /\ result' = [result EXCEPT ![w] = v]
                   /\ response' = [response EXCEPT ![w] = EndpointResponse(req[w], v)]
                   /\ UNCHANGED updated
              ELSE LET n == consume_hours(v.subscription, req[w].hours)
                   IN  IF n = ValueError
                       THEN /\ pc' = [pc EXCEPT ![w] = "done"]
                            /\ result' = [result EXCEPT ![w] = [kind |-> "ValueError"]]
                            /\ response' = [response EXCEPT ![w] = EndpointResponse(req[w], [kind |-> "ValueError"])]
                            /\ UNCHANGED updated
                       ELSE /\ pc' = [pc EXCEPT ![w] = "begin"]
                            /\ updated' = [updated EXCEPT ![w] = n]
                            /\ UNCHANGED <<result, response>>
    /\ UNCHANGED <<cbvars, bovars, envars, rtvars, whvars, opLimit, users, subs, pending, rowlock, req, txlog,
                   opsStarted, sub0, debited, charged, failedPre>>

BeginTransaction_skipped(w) ==
    /\ pc[w] = "begin"
    /\ pc' = [pc EXCEPT ![w] = "update"]
    /\ UNCHANGED <<cbvars, bovars, envars, rtvars, whvars, opLimit, users, subs, pending, rowlock, req, vsub, updated, result, response, ncalls,
                   txlog, opsStarted, sub0, debited, charged, failedPre>>

\* await begin_transaction
BeginTransaction(w) ==
    /\ pc[w] = "begin"
    /\ txlog' = [txlog EXCEPT ![w] = Append(@, "begin")]
    /\ \E ok \in BOOLEAN :
         pc' = [pc EXCEPT ![w] = IF ok THEN "update" ELSE "rollback"]
    /\ UNCHANGED <<cbvars, bovars, envars, rtvars, whvars, opLimit, users, subs, pending, rowlock, req, vsub, updated, result, response, ncalls,
                   opsStarted, sub0, debited, charged, failedPre>>

\* await update_subscription(updated_subscription): the row is written in the
\* worker's transaction and stays locked until the transaction ends
UpdateSubscription(w) ==
    /\ pc[w] = "update"
    /\ rowlock[req[w].user_id] = Nobody
    /\ txlog' = [txlog EXCEPT ![w] = Append(@, "update")]
    /\ pending' = [pending EXCEPT ![w] = updated[w]]
    /\ rowlock' = [rowlock EXCEPT ![req[w].user_id] = w]
    /\ pc' = [pc EXCEPT ![w] = "commit"]
    /\ UNCHANGED <<cbvars, bovars, envars, rtvars, whvars, opLimit, users, subs, req, vsub, updated, result, response, ncalls,
                   opsStarted, sub0, debited, charged, failedPre>>

\* update_subscription raises
UpdateSubscriptionFails(w) ==
    /\ pc[w] = "update"
    /\ txlog' = [txlog EXCEPT ![w] = Append(@, "update")]
    /\ pc' = [pc EXCEPT ![w] = "rollback"]
    /\ UNCHANGED <<cbvars, bovars, envars, rtvars, whvars, opLimit, users, subs, pending, rowlock, req, vsub, updated, result, response, ncalls,
                   opsStarted, sub0, debited, charged, failedPre>>

ConsumptionResult(final_subscription, hours_to_consume) ==
    [kind |-> "consumed", success |-> TRUE,
     updated_subscription |-> final_subscription,
     consumed_hours |-> hours_to_consume,
     remaining_hours |-> final_subscription.available_hours]

\* await commit_transaction, then return ConsumptionResult
CommitTransaction(w) ==
    /\ pc[w] = "commit"
    /\ txlog' = [txlog EXCEPT ![w] = Append(@, "commit")]
    /\ subs' = [subs EXCEPT ![req[w].user_id] = pending[w]]
    /\ pending' = [pending EXCEPT ![w] = NoSub]
    /\ rowlock' = [rowlock EXCEPT ![req[w].user_id] = Nobody]
    /\ pc' = [pc EXCEPT ![w] = "done"]
    /\ result' = [result EXCEPT ![w] = ConsumptionResult(pending[w], req[w].hours)]
    /\ response' = [response EXCEPT ![w] = EndpointResponse(req[w], ConsumptionResult(pending[w], req[w].hours))]
    /\ debited' = [debited EXCEPT ![req[w].user_id] = @ + req[w].hours]
    /\ charged' = IF req[w].kind = "callback"
                  THEN [charged EXCEPT ![req[w].processing_id] = @ + 1]
                  ELSE charged
    /\ failedPre' = [failedPre EXCEPT ![req[w].user_id] = NoSub]
    /\ UNCHANGED <<cbvars, bovars, envars, rtvars, whvars, opLimit, users, req, vsub, updated, ncalls, opsStarted, sub0>>

\* commit_transaction raises: nothing of the transaction is applied
CommitTransactionFails(w) ==
    /\ pc[w] = "commit"
    /\ txlog' = [txlog EXCEPT ![w] = Append(@, "commit")]
    /\ pc' = [pc EXCEPT ![w] = "rollback"]
    /\ UNCHANGED <<cbvars, bovars, envars, rtvars, whvars, opLimit, users, subs, pending, rowlock, req, vsub, updated, result, response, ncalls,
                   opsStarted, sub0, debited, charged, failedPre>>

\* the exception consumir_horas raises once the rollback has returned
TransactionFailure(user_id, hours_to_consume) ==
    InvalidConsumptionException(user_id, hours_to_consume, "Transaction failed")

RollbackTransaction_skipped(w) ==
    /\ pc[w] = "rollback"
    /\ pc' = [pc EXCEPT ![w] = "done"]
    /\ result' = [result EXCEPT ![w] = TransactionFailure(req[w].user_id, req[w].hours)]
    /\ response' = [response EXCEPT ![w] = EndpointResponse(req[w], TransactionFailure(req[w].user_id, req[w].hours))]
    /\ failedPre' = [failedPre EXCEPT ![req[w].user_id] = vsub[w]]
    /\ UNCHANGED <<cbvars, bovars, envars, rtvars, whvars, opLimit, users, subs, pending, rowlock, req, vsub, updated,
                   ncalls, txlog, opsStarted, sub0, debited, charged>>

\* except Exception: await rollback_transaction, then raise; a rollback that
\* raises leaves the except block with its own exception
RollbackTransaction(w) ==
    /\ pc[w] = "rollback"
    /\ txlog' = [txlog EXCEPT ![w] = Append(@, "rollback")]
    /\ pending' = [pending EXCEPT ![w] = NoSub]
    /\ rowlock' = [rowlock EXCEPT ![req[w].user_id] =
                     IF @ = w THEN Nobody ELSE @]
    /\ pc' = [pc EXCEPT ![w] = "done"]
    /\ \E ok \in BOOLEAN :
         LET e == IF ok THEN TransactionFailure(req[w].user_id, req[w].hours)
                  ELSE RollbackError
         IN  /\ result' = [result EXCEPT ![w] = e]
             /\ response' = [response EXCEPT ![w] = EndpointResponse(req[w], e)]
    /\ failedPre' = [failedPre EXCEPT ![req[w].user_id] = vsub[w]]
    /\ UNCHANGED <<cbvars, bovars, envars, rtvars, whvars, opLimit, users, subs, req, vsub, updated, ncalls,
                   opsStarted, sub0, debited, charged>>

(* --------------------------- CircuitBreaker --------------------------- *)

Threads == {"t1", "t2"}

NoTime == 0 - 1

\* constructor arguments tried by the model (3 is the default threshold)
ThresholdChoices == {1, 2, 3}

TimeoutChoices == {1, 2}

\* what the protected function does when it is invoked: it returns, raises an
\* exception matching expected_exception, or raises another exception
FuncOutcomes == {"returns", "raises_expected", "raises_other"}

NothingObserved == [state |-> "none", since |-> NoTime]

should_attempt_reset_never == FALSE

\* time.time() - last_failure_time >= timeout
should_attempt_reset ==
    IF last_failure_time = NoTime THEN TRUE
    ELSE now - last_failure_time >= timeout

\* call(): self.total_calls += 1
CallEnterBody(t) ==
    /\ tpc[t] \in {"idle", "done"}
    /\ total_calls < MaxCalls
    /\ total_calls' = total_calls + 1
    /\ tpc' = [tpc EXCEPT ![t] = "check"]
    /\ outcome' = [outcome EXCEPT ![t] = "none"]
    /\ observed' = [observed EXCEPT ![t] = NothingObserved]
    /\ invoked' = [invoked EXCEPT ![t] = FALSE]
    /\ UNCHANGED <<gkvars, whvars, bovars, envars, failure_threshold, timeout, state, failure_count,
                   last_failure_time, successful_calls, failed_calls, now,
                   consecutive>>

\* call() entered by a caller that is no retry loop
CallEnter(t) == CallEnterBody(t) /\ UNCHANGED rtvars

\* call(): if self.state == OPEN: ... (lines 118-126); the write of HALF_OPEN
\* is the caller's next statement
CheckState(t) ==
    /\ tpc[t] = "check"
    /\ LET elapsed == last_failure_time # NoTime /\ should_attempt_reset
           since == IF last_failure_time = NoTime THEN NoTime
                    ELSE now - last_failure_time
       IN  /\ observed' = [observed EXCEPT ![t] = [state |-> state, since |-> since]]
           /\ IF state = "open"
              THEN IF elapsed
                   THEN /\ tpc' = [tpc EXCEPT ![t] = "set_half_open"]
                        /\ UNCHANGED outcome
                   ELSE /\ tpc' = [tpc EXCEPT ![t] = "done"]
                        /\ outcome' = [outcome EXCEPT ![t] = "CircuitBreakerOpenException"]
              ELSE /\ tpc' = [tpc EXCEPT ![t] = "invoke"]
                   /\ UNCHANGED outcome
    /\ UNCHANGED <<gkvars, whvars, bovars, envars, rtvars, failure_threshold, timeout, state, failure_count,
                   last_failure_time, total_calls, successful_calls, failed_calls,
                   now, invoked, consecutive>>

\* call(): self.state = CircuitState.HALF_OPEN (line 121)
SetHalfOpen(t) ==
    /\ tpc[t] = "set_half_open"
    /\ state' = "half_open"
    /\ tpc' = [tpc EXCEPT ![t] = "invoke"]
    /\ UNCHANGED <<gkvars, whvars, bovars, envars, rtvars, failure_threshold, timeout, failure_count,
                   last_failure_time, total_calls, successful_calls, failed_calls,
                   now, outcome, observed, invoked, consecutive>>

\* call(): func(*args, **kwargs) is entered (line 130)
InvokeFunc(t) ==
    /\ tpc[t] = "invoke"
    /\ invoked' = [invoked EXCEPT ![t] = TRUE]
    /\ tpc' = [tpc EXCEPT ![t] = "running"]
    /\ UNCHANGED <<gkvars, whvars, bovars, envars, rtvars, failure_threshold, timeout, state, failure_count,
                   last_failure_time, total_calls, successful_calls, failed_calls,
                   now, outcome, observed, consecutive>>

FuncEnds_counts_every_exception(t) ==
    /\ tpc[t] = "running"
    /\ \E o \in FuncOutcomes :
         IF o = "returns"
         THEN /\ tpc' = [tpc EXCEPT ![t] = "on_success"]
              /\ UNCHANGED <<outcome, failure_count>>
         ELSE IF o = "raises_expected"
         THEN /\ tpc' = [tpc EXCEPT ![t] = "on_failure"]
              /\ UNCHANGED <<outcome, failure_count>>
         ELSE /\ tpc' = [tpc EXCEPT ![t] = "done"]
              /\ outcome' = [outcome EXCEPT ![t] = "raised_other"]
              /\ failure_count' = failure_count + 1
    /\ UNCHANGED <<gkvars, whvars, bovars, envars, rtvars, failure_threshold, timeout, state,
                   last_failure_time, total_calls, successful_calls, failed_calls,
                   now, observed, invoked, consecutive>>

\* func returns or raises; an exception that is no instance of
\* expected_exception is re-raised without _on_failure (lines 134-138)
FuncEndsBody(t) ==
    /\ tpc[t] = "running"
    /\ \E o \in FuncOutcomes :
         IF o = "returns"
         THEN /\ tpc' = [tpc EXCEPT ![t] = "on_success"]
              /\ UNCHANGED outcome
         ELSE IF o = "raises_expected"
         THEN /\ tpc' = [tpc EXCEPT ![t] = "on_failure"]
              /\ UNCHANGED outcome
         ELSE /\ tpc' = [tpc EXCEPT ![t] = "done"]
              /\ outcome' = [outcome EXCEPT ![t] = "raised_other"]
    /\ UNCHANGED <<gkvars, whvars, bovars, envars, failure_threshold, timeout, state, failure_count,
                   last_failure_time, total_calls, successful_calls, failed_calls,
                   now, observed, invoked, consecutive>>

\* the protected function of a caller that is no retry loop ends
FuncEnds(t) == FuncEndsBody(t) /\ UNCHANGED rtvars

OnSuccess_keeps_failure_count(t) ==
    /\ tpc[t] = "on_success"
    /\ successful_calls' = successful_calls + 1
    /\ state' = IF state # "closed" THEN "closed" ELSE state
    /\ consecutive' = 0
    /\ tpc' = [tpc EXCEPT ![t] = "done"]
    /\ outcome' = [outcome EXCEPT ![t] = "returned"]
    /\ UNCHANGED <<gkvars, whvars, bovars, envars, rtvars, failure_threshold, timeout, failure_count,
                   last_failure_time, total_calls, failed_calls, now, observed, invoked>>

\* _on_success (lines 153-166), then return result
OnSuccess(t) ==
    /\ tpc[t] = "on_success"
    /\ failure_count' = 0
    /\ successful_calls' = successful_calls + 1
    /\ state' = IF state # "closed" THEN "closed" ELSE state
    /\ consecutive' = 0
    /\ tpc' = [tpc EXCEPT ![t] = "done"]
    /\ outcome' = [outcome EXCEPT ![t] = "returned"]
    /\ UNCHANGED <<gkvars, whvars, bovars, envars, rtvars, failure_threshold, timeout, last_failure_time,
                   total_calls, failed_calls, now, observed, invoked>>

\* _on_failure: the counters and the timestamp (lines 177-179)
OnFailure(t) ==
    /\ tpc[t] = "on_failure"
    /\ failure_count' = failure_count + 1
    /\ failed_calls' = failed_calls + 1
    /\ last_failure_time' = now
    /\ consecutive' = consecutive + 1
    /\ tpc' = [tpc EXCEPT ![t] = "threshold"]
    /\ UNCHANGED <<gkvars, whvars, bovars, envars, rtvars, failure_threshold, timeout, state, total_calls,
                   successful_calls, now, outcome, observed, invoked>>

OpenOnThreshold_strict(t) ==
    /\ tpc[t] = "threshold"
    /\ state' = IF failure_count > failure_threshold THEN "open" ELSE state
    /\ tpc' = [tpc EXCEPT ![t] = "done"]
    /\ outcome' = [outcome EXCEPT ![t] = "raised_expected"]
    /\ UNCHANGED <<gkvars, whvars, bovars, envars, rtvars, failure_threshold, timeout, failure_count,
                   last_failure_time, total_calls, successful_calls, failed_calls,
                   now, observed, invoked, consecutive>>

\* _on_failure: if self.failure_count >= self.failure_threshold: OPEN
\* (lines 185-189), then raise e
OpenOnThreshold(t) ==
    /\ tpc[t] = "threshold"
    /\ state' = IF failure_count >= failure_threshold THEN "open" ELSE state
    /\ tpc' = [tpc EXCEPT ![t] = "done"]
    /\ outcome' = [outcome EXCEPT ![t] = "raised_expected"]
    /\ UNCHANGED <<gkvars, whvars, bovars, envars, rtvars, failure_threshold, timeout, failure_count,
                   last_failure_time, total_calls, successful_calls, failed_calls,
                   now, observed, invoked, consecutive>>

\* reset()
Reset ==
    /\ state' = "closed"
    /\ failure_count' = 0
    /\ last_failure_time' = NoTime
    /\ consecutive' = 0
    /\ UNCHANGED <<gkvars, whvars, bovars, envars, rtvars, failure_threshold, timeout, total_calls, successful_calls,
                   failed_calls, now, tpc, outcome, observed, invoked>>

\* time passes
Tick ==
    /\ now < MaxTime
    /\ now' = now + 1
    /\ UNCHANGED <<gkvars, whvars, bovars, envars, rtvars, failure_threshold, timeout, state, failure_count,
                   last_failure_time, total_calls, successful_calls, failed_calls,
                   tpc, outcome, observed, invoked, consecutive>>

\* the breaker reads the clock only through time.time() - last_failure_time, so
\* a clock that has reached MaxTime is kept in range by moving the origin of
\* time one unit later; a failure older than the new origin is dated at it
\* (MaxTime - 1 is no less than any timeout of the model)
RebaseClock ==
    /\ now = MaxTime
    /\ now' = now - 1
    /\ last_failure_time' = IF last_failure_time = NoTime THEN NoTime
                            ELSE IF last_failure_time > 0 THEN last_failure_time - 1
                            ELSE 0
    /\ UNCHANGED <<gkvars, whvars, bovars, envars, rtvars, failure_threshold, timeout, state, failure_count,
                   total_calls, successful_calls, failed_calls,
                   tpc, outcome, observed, invoked, consecutive>>

\* time passes, without end
Advance == Tick \/ RebaseClock

CountersFull ==
    \/ total_calls >= MaxCalls
    \/ successful_calls >= MaxCalls
    \/ failed_calls >= MaxCalls
    \/ failure_count >= MaxCalls
    \/ consecutive >= MaxCalls

Lowered(n) == IF n >= MaxCalls THEN n - 1 ELSE n

\* the counters are unbounded integers of which the breaker reads only
\* failure_count >= failure_threshold; a counter that has reached MaxCalls,
\* which is above every threshold of the model, is kept in range by lowering it
RebaseCounters ==
    /\ CountersFull
    /\ total_calls' = Lowered(total_calls)
    /\ successful_calls' = Lowered(successful_calls)
    /\ failed_calls' = Lowered(failed_calls)
    /\ failure_count' = Lowered(failure_count)
    /\ consecutive' = Lowered(consecutive)
    /\ UNCHANGED <<gkvars, whvars, bovars, envars, rtvars, failure_threshold, timeout, state,
                   last_failure_time, now, tpc, outcome, observed, invoked>>

(* ----------------------------- retry loops ---------------------------- *)

Services == {"TranscriptionService", "TranscriptionServiceV2"}

RetryStrategies == {"ExponentialBackoffStrategy", "NoRetryStrategy"}

\* config.provider: the Deepgram adapter, or another implementation of the
\* AudioTranscriptionProvider port, whose is_available() may answer anything
Providers == {"DeepgramProvider", "AudioTranscriptionProvider"}

\* provider.is_available() may answer True / may answer False
MayBeAvailable == provider = "DeepgramProvider" => provider_available

MayBeUnavailable == provider = "DeepgramProvider" => ~provider_available

\* RetryStrategy.should_retry(attempt, max_attempts, error)
should_retry(strategy, a, max_attempts) ==
    IF strategy = "NoRetryStrategy" THEN FALSE ELSE a < max_attempts

\* what the loop's except CircuitBreakerOpenException clause raises
OpenCircuitRaised(svc) ==
    IF svc = "TranscriptionService" THEN "CircuitBreakerOpenException"
    ELSE "ProviderUnavailableException"

\* the loop is entered: last_exception = None, attempt = 0
RetryStart ==
    /\ rpc \in {"idle", "raised", "returned"}
    /\ tpc["t1"] \in {"idle", "done"}
    /\ total_calls < MaxCalls
    /\ rpc' = "call"
    /\ rattempt' = 0
    /\ rcalls' = 0
    /\ rsleeps' = << >>
    /\ rlast' = "none"
    /\ rerror' = "none"
    /\ UNCHANGED <<gkvars, cbvars, bovars, envars, whvars, service, retry_strategy, svc_max_retries, provider, provider_available>>

\* the except Exception clause: last_exception = e, then sleep and go on, or
\* leave the loop and raise last_exception
AfterException ==
    IF /\ service = "TranscriptionServiceV2"
       /\ ~should_retry(retry_strategy, rattempt, svc_max_retries)
    THEN /\ rpc' = "raised"
         /\ rerror' = "last_exception"
    ELSE IF rattempt < svc_max_retries - 1
    THEN /\ rpc' = "sleep"
         /\ UNCHANGED rerror
    ELSE /\ rpc' = "raised"
         /\ rerror' = "last_exception"

\* the attempt calls circuit_breaker.call(...)
RetryCall ==
    /\ rpc = "call"
    /\ service = "TranscriptionServiceV2" => MayBeAvailable
    /\ CallEnterBody("t1")
    /\ rpc' = "await"
    /\ rcalls' = rcalls + 1
    /\ UNCHANGED <<service, retry_strategy, svc_max_retries, provider, provider_available, rattempt, rsleeps, rlast,
                   rerror>>

\* TranscriptionServiceV2._call_provider_with_circuit_breaker raises
\* ProviderUnavailableException before it reaches the breaker
ProviderUnavailable ==
    /\ rpc = "call"
    /\ service = "TranscriptionServiceV2"
    /\ MayBeUnavailable
    /\ rlast' = "ProviderUnavailableException"
    /\ AfterException
    /\ UNCHANGED <<gkvars, cbvars, bovars, envars, whvars, service, retry_strategy, svc_max_retries, provider, provider_available,
                   rattempt, rcalls, rsleeps>>

\* the function the service protects ends: _call_deepgram_api for
\* TranscriptionService, DeepgramProvider.transcribe for TranscriptionServiceV2,
\* whose except Exception clause sets self._available = False and re-raises
TranscribeEnds ==
    /\ FuncEndsBody("t1")
    /\ provider_available' = IF /\ service = "TranscriptionServiceV2"
                                /\ provider = "DeepgramProvider"
                                /\ tpc'["t1"] # "on_success"
                             THEN FALSE ELSE provider_available
    /\ UNCHANGED <<service, retry_strategy, svc_max_retries, provider, rpc, rattempt, rcalls,
                   rsleeps, rlast, rerror>>

\* circuit_breaker.call has returned or raised: the rest of the try block and
\* the except clauses
RetryHandle ==
    /\ rpc = "await"
    /\ tpc["t1"] = "done"
    /\ rlast' = outcome["t1"]
    /\ IF outcome["t1"] = "CircuitBreakerOpenException"
       THEN /\ rpc' = "raised"
            /\ rerror' = OpenCircuitRaised(service)
       ELSE IF outcome["t1"] = "returned"
       THEN \E parsed \in BOOLEAN :
              IF parsed
              THEN /\ rpc' = "returned"
                   /\ UNCHANGED rerror
              ELSE AfterException
       ELSE IF outcome["t1"] = "raised_other" /\ service = "TranscriptionService"
       THEN /\ rpc' = "raised"
            /\ rerror' = "BaseException"
       ELSE AfterException
    /\ UNCHANGED <<gkvars, cbvars, bovars, envars, whvars, service, retry_strategy, svc_max_retries, provider, provider_available,
                   rattempt, rcalls, rsleeps>>

\* time.sleep(delay), then the next attempt
RetrySleep ==
    /\ rpc = "sleep"
    /\ rsleeps' = Append(rsleeps, rattempt)
    /\ rattempt' = rattempt + 1
    /\ rpc' = "call"
    /\ UNCHANGED <<gkvars, cbvars, bovars, envars, whvars, service, retry_strategy, svc_max_retries, provider, provider_available,
                   rcalls, rlast, rerror>>

(* --------------------------- retry strategies ------------------------- *)

\* floats are modelled by the integers they hold; a float power or an
\* int-to-float conversion raises OverflowError from 2^DBL_MAX_EXP on
DBL_MAX_EXP == 1024

\* log2 of the multipliers the model uses, which are powers of two
Log2(m) == CASE m = 1 -> 0 [] m = 2 -> 1 [] m = 4 -> 2 [] OTHER -> 0

\* exponents from which a power of two is replaced by 2^SaturationExp, a value
\* above every initial_delay, delay_increment and max_delay of the model
SaturationExp == 20

RECURSIVE IntPow(_, _)
IntPow(m, a) == IF a = 0 THEN 1 ELSE m * IntPow(m, a - 1)

\* multiplier ** attempt, exact below 2^SaturationExp
Pow(m, a) ==
    IF m = 1 THEN 1
    ELSE IF Log2(m) * a >= SaturationExp THEN IntPow(2, SaturationExp)
    ELSE IntPow(m, a)

Min(a, b) == IF a < b THEN a ELSE b

NumberTypes == {"int", "float"}

ExponentialBackoffStrategy(initial_delay, initial_type, multiplier, multiplier_type, max_delay) ==
    [class |-> "ExponentialBackoffStrategy", initial_delay |-> initial_delay,
     initial_type |-> initial_type, multiplier |-> multiplier,
     multiplier_type |-> multiplier_type, max_delay |-> max_delay]

LinearBackoffStrategy(delay_increment, max_delay) ==
    [class |-> "LinearBackoffStrategy", delay_increment |-> delay_increment,
     max_delay |-> max_delay]

NoRetryStrategy == [class |-> "NoRetryStrategy"]

\* the strategy objects the model builds; the defaults are floats
\* (initial_delay 1.0, multiplier 2.0, max_delay 60.0)
Strategies ==
    { ExponentialBackoffStrategy(i, it, m, mt, d) :
        i \in {1, 5}, it \in NumberTypes, m \in {1, 2, 4}, mt \in NumberTypes,
        d \in {4, 60} }
    \cup { LinearBackoffStrategy(i, d) : i \in {1, 5}, d \in {4, 60} }
    \cup { NoRetryStrategy }

Attempts == {0, 1, 2, 3, 10, 511, 512, 1023, 1024}

Returned(x) == [raised |-> "none", value |-> x]

Raised(e) == [raised |-> e, value |-> NoValue]

NotCalled == [raised |-> "not called", value |-> NoValue]

\* RetryStrategy.get_delay(attempt): multiplier ** attempt raises when a float
\* power leaves the float range, initial_delay * (...) raises when an int
\* power too large for a float meets a float initial_delay
get_delay(s, a) ==
    IF s.class = "ExponentialBackoffStrategy"
    THEN IF /\ Log2(s.multiplier) * a >= DBL_MAX_EXP
            /\ (s.multiplier_type = "float" \/ s.initial_type = "float")
         THEN Raised("OverflowError")
         ELSE Returned(Min(s.initial_delay * Pow(s.multiplier, a), s.max_delay))
    ELSE IF s.class = "LinearBackoffStrategy"
    THEN Returned(Min(s.delay_increment * (a + 1), s.max_delay))
    ELSE Returned(0)

\* RetryStrategy.should_retry(attempt, max_attempts, error) of a strategy object
strategy_should_retry(s, a, max_attempts) ==
    IF s.class = "NoRetryStrategy" THEN FALSE ELSE a < max_attempts

\* a caller asks the strategy about one attempt
AskStrategy ==
    /\ \E a \in Attempts :
         /\ battempt' = a
         /\ bdelay' = get_delay(backoff, a)
         /\ \E max_attempts \in 1..MaxRetries :
              bretry' = strategy_should_retry(backoff, a, max_attempts)
    /\ UNCHANGED <<gkvars, cbvars, whvars, rtvars, envars, backoff>>

(* --------------------------- webhook trigger -------------------------- *)

NoUrl == "none"

ConfiguredUrl == "https://n8n/webhook"

\* HTTP status codes the workflow engine may answer with
StatusCodes == {200, 299, 300, 503}

\* what one http_client.post call can meet
HttpOutcomes ==
    { [kind |-> "response", status_code |-> c] : c \in StatusCodes }
    \cup { [kind |-> k, status_code |-> NoValue] :
             k \in {"TimeoutException", "RequestError", "Exception"} }

NoAttempt == [kind |-> "none", status_code |-> NoValue]

WebhookResponse(status, http_status_code, error_message) ==
    [status |-> status, http_status_code |-> http_status_code,
     error_message |-> error_message]

NoWebhookResponse == WebhookResponse("none", NoValue, "none")

\* WebhookStatus: the value of each member of the enum
status_value(member) ==
    CASE member = "PENDING" -> "pending"
      [] member = "SENT" -> "sent"
      [] member = "FAILED" -> "failed"
      [] member = "TIMEOUT" -> "timeout"
      [] OTHER -> "none"

is_successful(r) ==
    /\ r.status = "SENT"
    /\ r.http_status_code # NoValue
    /\ r.http_status_code # 0
    /\ 200 <= r.http_status_code
    /\ r.http_status_code < 300

send_webhook_request_timeout_as_failed(o) ==
    IF o.kind = "response"
    THEN IF 200 <= o.status_code /\ o.status_code < 300
         THEN WebhookResponse("SENT", o.status_code, "none")
         ELSE WebhookResponse("FAILED", o.status_code, "HTTP error")
    ELSE WebhookResponse("FAILED", NoValue, "Request error")

\* _send_webhook_request for a POST that raised nothing but httpx errors
send_webhook_request(o) ==
    IF o.kind = "response"
    THEN IF 200 <= o.status_code /\ o.status_code < 300
         THEN WebhookResponse("SENT", o.status_code, "none")
         ELSE WebhookResponse("FAILED", o.status_code, "HTTP error")
    ELSE IF o.kind = "TimeoutException"
         THEN WebhookResponse("TIMEOUT", NoValue, "Request timeout")
    ELSE WebhookResponse("FAILED", NoValue, "Request error")

\* a return statement of trigger_n8n_workflow
TriggerReturns(r) ==
    /\ wresp' = r
    /\ wpc' = "returned"
    /\ failedRun' = IF r.status = "SENT" THEN 0 ELSE failedRun + 1

LastAttempt_one_short(a) == a + 1 >= max_retries

\* attempt == self.max_retries
LastAttempt(a) == a = max_retries

\* trigger_n8n_workflow up to its first attempt
TriggerBody(webhook_url) ==
    /\ wpc \in {"idle", "returned"}
    /\ dispatches' = dispatches + 1
    /\ posts' = 0
    /\ sleeps' = << >>
    /\ lastAttempt' = NoAttempt
    /\ LET target_url == IF webhook_url # NoUrl THEN webhook_url ELSE n8n_webhook_url
       IN  IF target_url = NoUrl
           THEN /\ TriggerReturns(WebhookResponse("FAILED", NoValue,
                                                  "No webhook URL configured"))
                /\ attempt' = 0
           ELSE IF max_retries < 1
           THEN /\ TriggerReturns(WebhookResponse("FAILED", NoValue,
                                                  "Max retries exceeded"))
                /\ attempt' = 0
           ELSE /\ attempt' = 1
                /\ wpc' = "send"
                /\ wresp' = NoWebhookResponse
                /\ UNCHANGED failedRun
    /\ UNCHANGED <<n8n_webhook_url, max_retries>>

\* trigger_n8n_workflow called on its own
DirectTrigger ==
    /\ dispatches < MaxDispatches
    /\ \E u \in {NoUrl, ConfiguredUrl} : TriggerBody(u)
    /\ UNCHANGED <<gkvars, cbvars, bovars, envars, rtvars>>

\* one pass of the loop body: the POST and what follows it
SendWebhookRequest ==
    /\ wpc = "send"
    /\ \E o \in HttpOutcomes :
        /\ posts' = posts + 1
        /\ lastAttempt' = o
        /\ IF o.kind # "Exception" /\ is_successful(send_webhook_request(o))
           THEN TriggerReturns(send_webhook_request(o))
           ELSE IF LastAttempt(attempt)
           THEN TriggerReturns(IF o.kind = "Exception"
                               THEN WebhookResponse("FAILED", NoValue,
                                                    "HTTP request failed")
                               ELSE send_webhook_request(o))
           ELSE /\ wpc' = "sleep"
                /\ UNCHANGED <<wresp, failedRun>>
    /\ UNCHANGED <<gkvars, cbvars, bovars, envars, rtvars, n8n_webhook_url, max_retries, attempt, sleeps,
                   dispatches>>

BackoffSleep_fixed_delay ==
    /\ wpc = "sleep"
    /\ sleeps' = Append(sleeps, 1)
    /\ attempt' = attempt + 1
    /\ wpc' = "send"
    /\ UNCHANGED <<gkvars, cbvars, bovars, envars, rtvars, n8n_webhook_url, max_retries, posts, lastAttempt,
                   wresp, dispatches, failedRun>>

\* asyncio.sleep(retry_delay_seconds * attempt), then the next pass
BackoffSleep ==
    /\ wpc = "sleep"
    /\ sleeps' = Append(sleeps, attempt)
    /\ attempt' = attempt + 1
    /\ wpc' = "send"
    /\ UNCHANGED <<gkvars, cbvars, bovars, envars, rtvars, n8n_webhook_url, max_retries, posts, lastAttempt,
                   wresp, dispatches, failedRun>>

(* --------------------------- start endpoint --------------------------- *)

\* iniciar_procesamiento_reunion: verificar_consumo_disponible with the estimate
StartProcess(w) == \E r \in StartRequests : Enter(w, r)

StartDispatch_before_verification(w) ==
    /\ pc[w] = "get_user"
    /\ req[w].kind = "start"
    /\ TriggerBody(NoUrl)
    /\ pc' = [pc EXCEPT ![w] = "await_dispatch"]
    /\ UNCHANGED <<cbvars, bovars, envars, rtvars, opLimit, users, subs, sub0, pending, rowlock, req, vsub,
                   updated, result, response, ncalls, txlog, opsStarted, debited,
                   charged, failedPre>>

\* iniciar_procesamiento_reunion, authorized: the payload is built and
\* webhook_trigger.trigger_workflow(webhook_payload) is called with no URL argument
StartDispatch(w) ==
    /\ pc[w] = "dispatch"
    /\ TriggerBody(NoUrl)
    /\ pc' = [pc EXCEPT ![w] = "await_dispatch"]
    /\ UNCHANGED <<cbvars, bovars, envars, rtvars, opLimit, users, subs, sub0, pending, rowlock, req, vsub,
                   updated, result, response, ncalls, txlog, opsStarted, debited,
                   charged, failedPre>>

\* iniciar_procesamiento_reunion after the dispatch: the test of
\* webhook_response.status.value against "SENT"; the 503 WORKFLOW_UNAVAILABLE
\* raised in the else branch is caught by the except Exception around it,
\* which raises 503 WORKFLOW_ERROR in its place
iniciar_procesamiento_reunion(verification_result, webhook_response, webhook_url) ==
    IF status_value(webhook_response.status) = "SENT"
    THEN ProcessStartResponse(TRUE, verification_result.remaining_hours,
                              verification_result.consumption_percentage, webhook_url)
    ELSE HTTPException(503, "WORKFLOW_ERROR")

RespondStart(w) ==
    /\ pc[w] = "await_dispatch"
    /\ wpc = "returned"
    /\ response' = [response EXCEPT ![w] =
                       iniciar_procesamiento_reunion(result[w], wresp, n8n_webhook_url)]
    /\ pc' = [pc EXCEPT ![w] = "done"]
    /\ UNCHANGED <<cbvars, bovars, envars, rtvars, whvars, opLimit, users, subs, sub0, pending, rowlock, req,
                   vsub, updated, result, ncalls, txlog, opsStarted, debited, charged,
                   failedPre>>

(* --------------------------- specifications --------------------------- *)

\* the transcription service's constructor with the given arguments
RetryInit(services, providers, strategies, retries) ==
    /\ service \in services
    /\ provider \in providers
    /\ retry_strategy \in strategies
    /\ svc_max_retries \in retries
    /\ provider_available = TRUE
    /\ rpc = "idle"
    /\ rattempt = 0
    /\ rcalls = 0
    /\ rsleeps = << >>
    /\ rlast = "none"
    /\ rerror = "none"

\* a Subscription built by its constructor
EntityInit(ledgers) ==
    /\ entity \in ledgers
    /\ derived = NotCalledYet

\* a RetryStrategy built by its constructor
BackoffInit(strategies) ==
    /\ backoff \in strategies
    /\ battempt = 0
    /\ bdelay = NotCalled
    /\ bretry = FALSE

\* WebhookTrigger.__init__ with the given arguments
WebhookInit(urls, retries) ==
    /\ n8n_webhook_url \in urls
    /\ max_retries \in retries
    /\ wpc = "idle"
    /\ attempt = 0
    /\ posts = 0
    /\ sleeps = << >>
    /\ lastAttempt = NoAttempt
    /\ wresp = NoWebhookResponse
    /\ dispatches = 0
    /\ failedRun = 0

\* CircuitBreaker.__init__ with the given arguments
BreakerInit(thresholds, timeouts) ==
    /\ failure_threshold \in thresholds
    /\ timeout \in timeouts
    /\ state = "closed"
    /\ failure_count = 0
    /\ last_failure_time = NoTime
    /\ total_calls = 0
    /\ successful_calls = 0
    /\ failed_calls = 0
    /\ now = 0
    /\ tpc = [t \in Threads |-> "idle"]
    /\ outcome = [t \in Threads |-> "none"]
    /\ observed = [t \in Threads |-> NothingObserved]
    /\ invoked = [t \in Threads |-> FALSE]
    /\ consecutive = 0

\* a store holding any user record or none, and any subscription or none
GatekeeperInit(userChoices, ledgerChoices, limit) ==
    /\ users \in [UserIds -> userChoices]
    /\ subs \in [UserIds -> ledgerChoices]
    /\ opLimit = limit
    /\ sub0 = subs
    /\ pending = [w \in Workers |-> NoSub]
    /\ rowlock = [u \in UserIds |-> Nobody]
    /\ pc = [w \in Workers |-> "idle"]
    /\ req = [w \in Workers |-> NoReq]
    /\ vsub = [w \in Workers |-> NoSub]
    /\ updated = [w \in Workers |-> NoSub]
    /\ result = [w \in Workers |-> NoResult]
    /\ response = [w \in Workers |-> NoResponse]
    /\ ncalls = [w \in Workers |-> NoCalls]
    /\ txlog = [w \in Workers |-> << >>]
    /\ opsStarted = 0
    /\ debited = [u \in UserIds |-> 0]
    /\ charged = [p \in ProcessingIds |-> 0]
    /\ failedPre = [u \in UserIds |-> NoSub]

Init ==
    /\ GatekeeperInit(StoredUsers, StoredLedgers \cup {NoSub}, MaxOps)
    /\ BreakerInit({3}, {60})
    /\ WebhookInit({NoUrl}, {3})
    /\ RetryInit({"TranscriptionService"}, {"DeepgramProvider"}, {"none"}, {3})
    /\ BackoffInit({NoRetryStrategy})
    /\ EntityInit({NoSub})

InitSeq ==
    /\ GatekeeperInit(StoredUsers, StoredLedgers \cup {NoSub}, MaxSeqOps)
    /\ BreakerInit({3}, {60})
    /\ WebhookInit({NoUrl}, {3})
    /\ RetryInit({"TranscriptionService"}, {"DeepgramProvider"}, {"none"}, {3})
    /\ BackoffInit({NoRetryStrategy})
    /\ EntityInit({NoSub})

WorkerStep(w) ==
    \/ StartAuthorize(w)
    \/ StartDebit(w)
    \/ StartStatus(w)
    \/ StartCallback(w)
    \/ CallbackFailed(w)
    \/ GetUser(w)
    \/ GetSubscription(w)
    \/ BeginTransaction(w)
    \/ UpdateSubscription(w)
    \/ UpdateSubscriptionFails(w)
    \/ CommitTransaction(w)
    \/ CommitTransactionFails(w)
    \/ RollbackTransaction(w)

\* the Gatekeeper serving requests concurrently
Next == \E w \in Workers : WorkerStep(w)

Spec == Init /\ [][Next]_vars

\* the Gatekeeper serving one request at a time
NextSeq == WorkerStep("w1")

SpecSeq == InitSeq /\ [][NextSeq]_vars

InitCB ==
    /\ GatekeeperInit({NoUser}, {NoSub}, 0)
    /\ BreakerInit(ThresholdChoices, TimeoutChoices)
    /\ WebhookInit({NoUrl}, {3})
    /\ RetryInit({"TranscriptionService"}, {"DeepgramProvider"}, {"none"}, {3})
    /\ BackoffInit({NoRetryStrategy})
    /\ EntityInit({NoSub})

CallerStep(t) ==
    \/ CallEnter(t)
    \/ CheckState(t)
    \/ SetHalfOpen(t)
    \/ InvokeFunc(t)
    \/ FuncEnds(t)
    \/ OnSuccess(t)
    \/ OnFailure(t)
    \/ OpenOnThreshold(t)

\* one breaker shared by concurrent callers
NextCB == (\E t \in Threads : CallerStep(t)) \/ Reset \/ Tick

SpecCB == InitCB /\ [][NextCB]_vars

\* one breaker shared by concurrent callers, reset() never called
NextCBCalls == (\E t \in Threads : CallerStep(t)) \/ Tick

SpecCBCalls == InitCB /\ [][NextCBCalls]_vars

\* reset() called by the caller itself, between two of its calls
ResetBetweenCalls == tpc["t1"] \in {"idle", "done"} /\ Reset

\* one breaker used by a single caller, which also resets it
NextCBSeq == CallerStep("t1") \/ ResetBetweenCalls \/ Tick

SpecCBSeq == InitCB /\ [][NextCBSeq]_vars

\* a caller's step while the counters are in range
LiveCallerStep(t) == ~CountersFull /\ CallerStep(t)

\* one breaker used by a caller that never stops calling, as time goes on
NextCBLive ==
    \/ LiveCallerStep("t1")
    \/ Advance
    \/ RebaseCounters

\* the caller goes on with its call and calls again, and time keeps advancing
SpecCBLive ==
    /\ InitCB
    /\ [][NextCBLive]_vars
    /\ WF_vars(LiveCallerStep("t1"))
    /\ WF_vars(Advance)
    /\ WF_vars(RebaseCounters)

\* one breaker used by a single caller
NextCB1 == CallerStep("t1") \/ Reset \/ Tick

SpecCB1 == InitCB /\ [][NextCB1]_vars

\* the start endpoint takes its trigger from create_webhook_trigger with the
\* development settings; the factory as written is given no URL, a factory
\* replaced by one that supplies the URL is the other choice
InitStart ==
    /\ GatekeeperInit(StoredUsers, StoredLedgers \cup {NoSub}, MaxOps)
    /\ BreakerInit({3}, {60})
    /\ WebhookInit({NoUrl, ConfiguredUrl}, {DevelopmentMaxRetries})
    /\ RetryInit({"TranscriptionService"}, {"DeepgramProvider"}, {"none"}, {3})
    /\ BackoffInit({NoRetryStrategy})
    /\ EntityInit({NoSub})

\* the Gatekeeper and the start endpoint serving one request at a time
NextStart ==
    \/ WorkerStep("w1")
    \/ StartProcess("w1")
    \/ StartDispatch("w1")
    \/ SendWebhookRequest
    \/ BackoffSleep
    \/ RespondStart("w1")

SpecStart == InitStart /\ [][NextStart]_vars

InitRetry ==
    /\ GatekeeperInit({NoUser}, {NoSub}, 0)
    /\ BreakerInit(ThresholdChoices, TimeoutChoices)
    /\ WebhookInit({NoUrl}, {3})
    /\ RetryInit(Services, Providers, RetryStrategies, 1..MaxRetries)
    /\ BackoffInit({NoRetryStrategy})
    /\ EntityInit({NoSub})

\* one transcription service running its retry loop through its breaker
NextRetry ==
    \/ RetryStart
    \/ RetryCall
    \/ ProviderUnavailable
    \/ CheckState("t1")
    \/ SetHalfOpen("t1")
    \/ InvokeFunc("t1")
    \/ TranscribeEnds
    \/ OnSuccess("t1")
    \/ OnFailure("t1")
    \/ OpenOnThreshold("t1")
    \/ RetryHandle
    \/ RetrySleep
    \/ Tick

SpecRetry == InitRetry /\ [][NextRetry]_vars

InitBackoff ==
    /\ GatekeeperInit({NoUser}, {NoSub}, 0)
    /\ BreakerInit({3}, {60})
    /\ WebhookInit({NoUrl}, {3})
    /\ RetryInit({"TranscriptionService"}, {"DeepgramProvider"}, {"none"}, {3})
    /\ BackoffInit(Strategies)
    /\ EntityInit({NoSub})

\* retry strategies asked for delays and retry decisions
NextBackoff == AskStrategy

SpecBackoff == InitBackoff /\ [][NextBackoff]_vars

InitEntity ==
    /\ GatekeeperInit({NoUser}, {NoSub}, 0)
    /\ BreakerInit({3}, {60})
    /\ WebhookInit({NoUrl}, {3})
    /\ RetryInit({"TranscriptionService"}, {"DeepgramProvider"}, {"none"}, {3})
    /\ BackoffInit({NoRetryStrategy})
    /\ EntityInit(EntityLedgers)

\* subscription.suspend() is called on a Subscription value
CallSuspend ==
    /\ derived' = suspend(entity)
    /\ UNCHANGED <<gkvars, cbvars, whvars, rtvars, bovars, entity>>

\* methods of the Subscription entity called on values of it
NextEntity == CallSuspend

SpecEntity == InitEntity /\ [][NextEntity]_vars

InitWH ==
    /\ GatekeeperInit({NoUser}, {NoSub}, 0)
    /\ BreakerInit({3}, {60})
    /\ WebhookInit({NoUrl, ConfiguredUrl}, 0..MaxRetries)
    /\ RetryInit({"TranscriptionService"}, {"DeepgramProvider"}, {"none"}, {3})
    /\ BackoffInit({NoRetryStrategy})
    /\ EntityInit({NoSub})

\* one WebhookTrigger used for one dispatch after another
NextWH == DirectTrigger \/ SendWebhookRequest \/ BackoffSleep

SpecWH == InitWH /\ [][NextWH]_vars

(* ------------------------------- claims ------------------------------- *)

SubscriptionValues ==
    UNION { {subs[u], failedPre[u]} : u \in UserIds }
    \cup UNION { {pending[w], vsub[w], updated[w]} : w \in Workers }
    \cup { result[w].subscription : w \in {x \in Workers : result[x].kind = "verified"} }
    \cup { result[w].updated_subscription :
             w \in {x \in Workers : result[x].kind = "consumed"} }

HoursConsistent(s) ==
    /\ s.consumed_hours + s.available_hours - s.monthly_hours_limit <= Tolerance
    /\ s.monthly_hours_limit - s.consumed_hours - s.available_hours <= Tolerance
    /\ s.monthly_hours_limit > 0
    /\ s.available_hours >= 0
    /\ s.consumed_hours >= 0

\* C1: every Subscription value in the system, stored, read, built by
\* consume_hours, written in a transaction or returned, has consumed + available
\* within 0.01 h of its limit, a positive limit and non-negative hours, whatever
\* Authorize, Debit, Status and callback requests have run, also concurrently.
C1_LedgerInvariant ==
    \A s \in SubscriptionValues : s # NoSub => HoursConsistent(s)

\* C1 witness: a Debit has committed and changed the stored ledger.
C1_Witness ==
    \E u \in UserIds :
        /\ debited[u] > 0
        /\ subs[u] # sub0[u]
        /\ subs[u].consumed_hours = sub0[u].consumed_hours + debited[u]

TxFailedAfterBegin(w) ==
    /\ pc[w] = "done"
    /\ IsDebit(req[w])
    /\ Len(txlog[w]) >= 2
    /\ txlog[w][1] = "begin"
    /\ txlog[w][2] = "update"
    /\ result[w].kind # "consumed"

C3_NoLostUpdate ==
    \A u \in UserIds :
        subs[u] # NoSub =>
            /\ subs[u].consumed_hours = sub0[u].consumed_hours + debited[u]
            /\ subs[u].available_hours = sub0[u].available_hours - debited[u]
            /\ HoursConsistent(subs[u])

\* C4: deliveries of completed callbacks carrying the same processing id debit
\* the user's ledger at most once.
C4_DuplicateCallbackSafe ==
    \A p \in ProcessingIds : charged[p] <= 1

\* C5, first half: a call that has just raised the counted failure completing
\* failure_threshold consecutive counted failures leaves the breaker OPEN.
\* Second half: a call that found the breaker OPEN less than timeout after the
\* last failure raises CircuitBreakerOpenException and never invokes func.
C5_FailFast ==
    \A t \in Threads :
        tpc[t] = "done" =>
            /\ (outcome[t] = "raised_expected" /\ consecutive >= failure_threshold)
                  => state = "open"
            /\ (/\ observed[t].state = "open"
                /\ observed[t].since # NoTime
                /\ observed[t].since < timeout)
                  => (outcome[t] = "CircuitBreakerOpenException" /\ ~invoked[t])

\* C5 witness: the threshold was reached, the breaker is OPEN and a call made
\* before the timeout has been rejected without invoking func.
C5_Witness ==
    /\ tpc["t1"] = "done"
    /\ state = "open"
    /\ consecutive >= failure_threshold
    /\ observed["t1"].state = "open"
    /\ observed["t1"].since < timeout
    /\ outcome["t1"] = "CircuitBreakerOpenException"
    /\ ~invoked["t1"]

\* callers inside func that were let through an OPEN or HALF_OPEN breaker
OutstandingProbes ==
    {t \in Threads : tpc[t] = "running" /\ observed[t].state \in {"open", "half_open"}}

\* C6: while the breaker is HALF_OPEN at most one admitted invocation of func
\* is outstanding, whatever the callers' interleaving.
C6_SingleProbe ==
    state = "half_open" => Cardinality(OutstandingProbes) <= 1

\* the error the five checks give in their declared order, NoError if all pass
NoError == "none"

FirstFailingCheck(r, u, s) ==
    IF r.hours <= 0 THEN "InvalidConsumptionException"
    ELSE IF u = NoUser THEN "UserNotFoundException"
    ELSE IF ~(u.is_active /\ u.is_verified) THEN "UserNotFoundException"
    ELSE IF s = NoSub THEN "SubscriptionNotFoundException"
    ELSE IF s.status = "suspended" THEN "SubscriptionSuspendedException"
    ELSE IF ~(s.status = "active" /\ s.available_hours >= r.hours)
         THEN "InsufficientHoursException"
    ELSE NoError

Verifying(w) == pc[w] # "idle" /\ result[w].kind # "acknowledged"

StoredFor(w) == get_active_subscription_by_user_id(req[w].user_id)

\* C7: a request that ends in verification ends with the error of the first
\* failing check in the order validation, user, subscription found, suspended,
\* hours, whatever later checks would also fail; it passes only if none fails.
C7_ErrorPrecedence ==
    \A w \in Workers :
        Verifying(w) =>
            LET e == FirstFailingCheck(req[w], users[req[w].user_id], StoredFor(w))
            IN  /\ (pc[w] = "done" /\ txlog[w] = << >>) =>
                      result[w].kind = (IF e = NoError THEN "verified" ELSE e)
                /\ pc[w] \in {"begin", "update", "commit", "rollback"} => e = NoError

\* C7 witness: a suspended ledger that also lacks the hours asked for was
\* answered with SubscriptionSuspended.
C7_Witness ==
    /\ pc["w1"] = "done"
    /\ req["w1"].kind = "authorize"
    /\ req["w1"].hours > 0
    /\ vsub["w1"] # NoSub
    /\ vsub["w1"].status = "suspended"
    /\ vsub["w1"].available_hours < req["w1"].hours
    /\ result["w1"].kind = "SubscriptionSuspendedException"

\* C8: a request with required_hours <= 0 ends in InvalidConsumption with no
\* call to the user store or the subscription store; a request for a user that
\* does not resolve ends in UserNotFound with no call to the subscription store.
C8_NoStoreAccessPastFailure ==
    \A w \in Workers :
        Verifying(w) =>
            /\ req[w].hours <= 0 =>
                  /\ pc[w] = "done"
                  /\ result[w].kind = "InvalidConsumptionException"
                  /\ ncalls[w] = NoCalls
            /\ (req[w].hours > 0 /\ users[req[w].user_id] = NoUser) =>
                  /\ ncalls[w].sub = 0
                  /\ ncalls[w].user <= 1
                  /\ pc[w] = "done" => result[w].kind = "UserNotFoundException"

\* C8 witness: a request with positive hours for a missing user ended in
\* UserNotFound after one user lookup and no subscription lookup.
C8_Witness ==
    /\ pc["w1"] = "done"
    /\ req["w1"].hours > 0
    /\ users[req["w1"].user_id] = NoUser
    /\ result["w1"].kind = "UserNotFoundException"
    /\ ncalls["w1"] = [user |-> 1, sub |-> 0]

\* C9: Authorize for an accessible user whose ledger is ACTIVE returns
\* authorized with remaining = available - required when available >= required
\* and changes no ledger; otherwise it raises InsufficientHours carrying the
\* available hours, the required hours and the status.
C9_AuthorizeDecision ==
    \A w \in Workers :
        (/\ pc[w] = "done"
         /\ req[w].kind = "authorize"
         /\ req[w].hours > 0
         /\ users[req[w].user_id] # NoUser
         /\ users[req[w].user_id].is_active
         /\ users[req[w].user_id].is_verified
         /\ subs[req[w].user_id] # NoSub
         /\ subs[req[w].user_id].status = "active") =>
            LET s == subs[req[w].user_id]
            IN  IF s.available_hours >= req[w].hours
                THEN /\ result[w].kind = "verified"
                     /\ result[w].can_consume
                     /\ result[w].remaining_hours = s.available_hours - req[w].hours
                     /\ result[w].subscription = s
                     /\ vsub[w] = s
                     /\ txlog[w] = << >>
                     /\ \A x \in Workers : pending[x] = NoSub
                ELSE /\ result[w].kind = "InsufficientHoursException"
                     /\ result[w].available_hours = s.available_hours
                     /\ result[w].required_hours = req[w].hours
                     /\ result[w].subscription_status = "active"
                     /\ vsub[w] = s

\* C9 witness: 10 h asked of an ACTIVE ledger holding 75 h, 65 h remain.
C9_Witness ==
    /\ pc["w1"] = "done"
    /\ req["w1"].kind = "authorize"
    /\ req["w1"].hours = Hours(10)
    /\ subs["u1"] # NoSub
    /\ subs["u1"].status = "active"
    /\ subs["u1"].available_hours = Hours(75)
    /\ result["w1"].kind = "verified"
    /\ result["w1"].remaining_hours = Hours(65)

\* the error kinds under which a failed transaction is to be reported
TransactionFailedKinds == {"TransactionFailed", "DatabaseTransactionException"}

\* C10: a Debit whose update_subscription or commit_transaction raised has
\* called rollback_transaction and ends with a TransactionFailed error.
C10_TransactionFailedSurfaced ==
    \A w \in Workers :
        TxFailedAfterBegin(w) =>
            /\ txlog[w][Len(txlog[w])] = "rollback"
            /\ result[w].kind \in TransactionFailedKinds

\* the store calls a Debit can have made so far: begin first, update only
\* after begin returned, commit only after update returned, rollback last
\* and only after one of them raised
TxCallSequences ==
    { << >>, <<"begin">>, <<"begin", "update">>, <<"begin", "update", "commit">>,
      <<"begin", "rollback">>, <<"begin", "update", "rollback">>,
      <<"begin", "update", "commit", "rollback">> }

FailedStatuses == {"failed", "FAILED"}

FailedCallback(r) == r.kind = "callback" /\ r.processing_status \in FailedStatuses

\* C13: serving a callback whose processing status is failed answers
\* success = true and consumption_updated = false, makes no call of the
\* consumption update (no store lookup, no transaction call) and leaves the
\* stored ledgers and pending writes as they were.
C13_FailedCallback ==
    [][FailedCallback(req'["w1"]) =>
          /\ pc'["w1"] = "done"
          /\ response'["w1"] =
                N8NCallbackResponse(TRUE, req'["w1"].processing_id, FALSE, NoValue, NoValue)
          /\ ncalls'["w1"] = NoCalls
          /\ txlog'["w1"] = << >>
          /\ subs' = subs
          /\ pending' = pending
          /\ debited' = debited
          /\ charged' = charged]_vars

\* C13 witness: a failed callback was acknowledged for a user whose ACTIVE
\* ledger would have covered the reported duration.
C13_Witness ==
    /\ pc["w1"] = "done"
    /\ FailedCallback(req["w1"])
    /\ response["w1"].kind = "N8NCallbackResponse"
    /\ ~response["w1"].consumption_updated
    /\ users[req["w1"].user_id] # NoUser
    /\ subs[req["w1"].user_id] # NoSub
    /\ subs[req["w1"].user_id].status = "active"
    /\ subs[req["w1"].user_id].available_hours >= req["w1"].hours
    /\ subs[req["w1"].user_id] = sub0[req["w1"].user_id]

\* C14: a completed callback reporting m minutes whose debit succeeds has
\* debited exactly m / 60 hours and is answered with consumption_updated =
\* true, the remaining hours after the debit and the consumption percentage
\* after the debit.
C14_CompletedCallback ==
    \A w \in Workers :
        (/\ pc[w] = "done"
         /\ req[w].kind = "callback"
         /\ req[w].processing_status = "completed"
         /\ result[w].kind = "consumed") =>
            /\ result[w].consumed_hours * MinutesPerHour
                  = Hours(req[w].actual_duration_minutes)
            /\ response[w].kind = "N8NCallbackResponse"
            /\ response[w].consumption_updated
            /\ response[w].remaining_hours
                  = result[w].updated_subscription.available_hours
            /\ response[w].consumption_percentage
                  = get_consumption_percentage(result[w].updated_subscription)

\* C15: a completed callback whose consumption update fails is answered 404
\* USER_NOT_FOUND for a user that does not resolve, 404 SUBSCRIPTION_NOT_FOUND
\* for a missing subscription and 500 CONSUMPTION_UPDATE_FAILED for a failed
\* transaction, and no answer reports consumption_updated = true unless the
\* debit was committed.
C15_CallbackFailureSignals ==
    \A w \in Workers :
        (pc[w] = "done" /\ req[w].kind = "callback" /\ ~FailedCallback(req[w])) =>
            /\ result[w].kind = "UserNotFoundException"
                  => response[w] = HTTPException(404, "USER_NOT_FOUND")
            /\ result[w].kind = "SubscriptionNotFoundException"
                  => response[w] = HTTPException(404, "SUBSCRIPTION_NOT_FOUND")
            /\ (Len(txlog[w]) > 0 /\ result[w].kind # "consumed")
                  => response[w] = HTTPException(500, "CONSUMPTION_UPDATE_FAILED")
            /\ (response[w].kind = "N8NCallbackResponse"
                /\ response[w].consumption_updated)
                  => result[w].kind = "consumed"


\* what trigger_n8n_workflow returns when the attempt that met o was its last
AttemptOutcome(o) ==
    IF o.kind = "Exception"
    THEN WebhookResponse("FAILED", NoValue, "HTTP request failed")
    ELSE send_webhook_request(o)

Is2xx(o) == o.kind = "response" /\ 200 <= o.status_code /\ o.status_code < 300

\* C16: after three consecutive failed dispatches with a breaker threshold of
\* 3, the next dispatch is rejected at once and performs no HTTP POST.
C16_ScenarioD ==
    /\ (failedRun >= failure_threshold /\ wpc \in {"send", "sleep"}) => posts = 0
    /\ (failedRun > failure_threshold /\ wpc = "returned") => posts = 0

\* C18: a trigger call that reached its retry loop with max_retries >= 1 and
\* ended without a successful attempt made exactly max_retries POSTs and
\* returned the outcome of the last one; an attempt answered with 2xx makes the
\* call return that SENT result at once, and a call that has returned makes no
\* further POST.
C18_BoundedAttempts ==
    /\ [](wpc = "returned" /\ attempt >= 1 /\ max_retries >= 1
            => /\ posts = attempt
               /\ posts <= max_retries
               /\ wresp.status # "SENT"
                    => posts = max_retries /\ wresp = AttemptOutcome(lastAttempt)
               /\ wresp.status = "SENT" => Is2xx(lastAttempt))
    /\ [][/\ posts' # posts /\ Is2xx(lastAttempt')
              => wpc' = "returned" /\ wresp' = send_webhook_request(lastAttempt')
          /\ wpc = "returned" /\ dispatches' = dispatches => posts' = posts]_vars

C18_Witness ==
    /\ wpc = "returned"
    /\ max_retries >= 2
    /\ posts = max_retries
    /\ lastAttempt.kind = "Exception"
    /\ Len(sleeps) = max_retries - 1

\* C19: the result a trigger call returns is SENT exactly when its final
\* attempt was answered with 2xx, TIMEOUT exactly when its final attempt timed
\* out, and FAILED otherwise (also when no attempt was made); a SENT result
\* carries a code in [200, 300), and is_successful holds exactly for those.
C19_OutcomeClassification ==
    wpc = "returned" =>
        /\ wresp.status = "SENT" <=> Is2xx(lastAttempt)
        /\ wresp.status = "TIMEOUT" <=> lastAttempt.kind = "TimeoutException"
        /\ wresp.status \in {"SENT", "TIMEOUT", "FAILED"}
        /\ wresp.status = "SENT"
             => 200 <= wresp.http_status_code /\ wresp.http_status_code < 300
        /\ is_successful(wresp) <=> wresp.status = "SENT"

C19_Witness ==
    /\ wpc = "returned"
    /\ wresp.status = "TIMEOUT"
    /\ posts = max_retries
    /\ max_retries >= 2


\* C12: no step taken for a start request (authorization, dispatch attempts,
\* backoff, answer) changes a stored ledger or stages a ledger write, whatever
\* the dispatch ends with.
C12_DispatchNeverConsumes ==
    [][req'["w1"].kind = "start"
         => /\ subs' = subs
            /\ pending' = pending
            /\ debited' = debited
            /\ txlog'["w1"] = << >>]_vars

C12_Witness ==
    /\ pc["w1"] = "done"
    /\ req["w1"].kind = "start"
    /\ result["w1"].kind = "verified"
    /\ wresp.status = "TIMEOUT"
    /\ posts = max_retries
    /\ subs["u1"] # sub0["u1"]

C17_RetriesStopOnOpen ==
    [][rlast' = "CircuitBreakerOpenException"
         => /\ rpc' = "raised"
            /\ rcalls' = rcalls
            /\ total_calls' = total_calls
            /\ rsleeps' = rsleeps
            /\ rerror' = "CircuitBreakerOpenException"]_vars


\* the call of thread t was made in HALF_OPEN: it reached the protected
\* function after finding the breaker OPEN or HALF_OPEN
HalfOpenCall(t) == invoked[t] /\ observed[t].state \in {"open", "half_open"}

\* C21: when a call made in HALF_OPEN fails with a counted exception, the
\* breaker is OPEN at the moment call() raises to its caller.
C21_FailedProbeReopens ==
    [][\A t \in Threads :
          (tpc[t] = "threshold" /\ tpc'[t] = "done" /\ HalfOpenCall(t))
              => state' = "open"]_vars

LegalTransitions ==
    { <<"closed", "open">>, <<"open", "half_open">>,
      <<"half_open", "closed">>, <<"half_open", "open">> }

\* C23: with reset() left out, a breaker shared by concurrent callers changes
\* state only along CLOSED->OPEN, OPEN->HALF_OPEN, HALF_OPEN->CLOSED and
\* HALF_OPEN->OPEN.
C23_LegalTransitions ==
    [][state' # state => <<state, state'>> \in LegalTransitions]_vars

\* C24: a reset() leaves the breaker CLOSED with failure_count, total_calls,
\* successful_calls and failed_calls all 0.
C24_ResetZeroesCounters ==
    [][(last_failure_time # NoTime /\ last_failure_time' = NoTime)
          => /\ state' = "closed"
             /\ failure_count' = 0
             /\ total_calls' = 0
             /\ successful_calls' = 0
             /\ failed_calls' = 0]_vars

\* C25: the step in which the protected function raises an exception that is
\* no instance of expected_exception hands it to the caller and leaves
\* failure_count, last_failure_time, failed_calls and the state as they were;
\* the counters and the timestamp move only in _on_failure, which runs for
\* matching exceptions, and the breaker opens only there.
C25_FailurePredicate ==
    [][/\ \A t \in Threads :
            (outcome'[t] = "raised_other" /\ outcome[t] # "raised_other")
                => /\ tpc'[t] = "done"
                   /\ UNCHANGED <<failure_count, last_failure_time, failed_calls, state>>
       /\ (\/ failure_count' > failure_count
           \/ failed_calls' # failed_calls
           \/ (last_failure_time' # last_failure_time /\ last_failure_time' # NoTime))
                => \E t \in Threads : tpc[t] = "on_failure" /\ tpc'[t] = "threshold"
       /\ (state' = "open" /\ state # "open")
                => \E t \in Threads : tpc[t] = "threshold" /\ tpc'[t] = "done"]_vars

C25_Witness ==
    /\ tpc["t1"] = "done"
    /\ outcome["t1"] = "raised_other"
    /\ invoked["t1"]
    /\ failure_count >= 1
    /\ failure_count < failure_threshold
    /\ state = "closed"


\* C26: for every attempt >= 0 an exponential strategy's get_delay returns
\* min(initial_delay * multiplier^attempt, max_delay) and a linear strategy's
\* returns min(delay_increment * (attempt + 1), max_delay); NoRetryStrategy's
\* should_retry is false; no returned delay exceeds max_delay.
C26_RetryStrategyFormulas ==
    bdelay # NotCalled =>
        /\ backoff.class = "ExponentialBackoffStrategy"
             => bdelay = Returned(Min(backoff.initial_delay
                                        * Pow(backoff.multiplier, battempt),
                                      backoff.max_delay))
        /\ backoff.class = "LinearBackoffStrategy"
             => bdelay = Returned(Min(backoff.delay_increment * (battempt + 1),
                                      backoff.max_delay))
        /\ backoff.class = "NoRetryStrategy" => ~bretry
        /\ (bdelay.raised = "none" /\ backoff.class # "NoRetryStrategy")
             => bdelay.value <= backoff.max_delay


\* C27: Authorize raises UserNotFound when the user is missing, inactive or
\* unverified, and the error's user_id field is then the user id that was
\* passed to Authorize.
C27_UserNotFoundCarriesUserId ==
    \A w \in Workers :
        (pc[w] = "done" /\ req[w].kind = "authorize") =>
            /\ (/\ result[w].kind # "InvalidConsumptionException"
                /\ \/ users[req[w].user_id] = NoUser
                   \/ ~can_access_system(users[req[w].user_id]))
                 => result[w].kind = "UserNotFoundException"
            /\ result[w].kind = "UserNotFoundException"
                 => result[w].user_id = <<req[w].user_id>>


\* C28: has_available_hours(required) holds exactly when the status is ACTIVE
\* and available_hours >= required; so Authorize and Debit on a TRIAL
\* subscription fail with InsufficientHours whatever its balance, and a TRIAL
\* ledger is never debited.
C28_AvailableHoursPredicate ==
    /\ [](\A s \in StoredLedgers, h \in HoursInputs :
            has_available_hours(s, h) <=> (s.status = "active" /\ s.available_hours >= h))
    /\ [](\A w \in Workers :
            (/\ pc[w] = "done"
             /\ req[w].kind \in {"authorize", "debit"}
             /\ result[w].kind \notin {"InvalidConsumptionException", "UserNotFoundException"}
             /\ subs[req[w].user_id] # NoSub
             /\ subs[req[w].user_id].status = "trial")
                => result[w].kind = "InsufficientHoursException")
    /\ [][\A u \in UserIds :
            (subs[u] # NoSub /\ subs[u].status = "trial") => subs'[u] = subs[u]]_vars

C28_Witness ==
    /\ pc["w1"] = "done"
    /\ req["w1"].kind = "debit"
    /\ req["w1"].hours > 0
    /\ subs["u1"] # NoSub
    /\ subs["u1"].status = "trial"
    /\ subs["u1"].available_hours >= req["w1"].hours
    /\ result["w1"].kind = "InsufficientHoursException"


\* C30: in the start-processing flow the webhook trigger is called, and a POST
\* is sent to the workflow engine, only once Authorize has returned success for
\* the request being served; while the request stands refused by Authorize
\* with any error, nothing is dispatched and nothing is posted.
C30_AuthorizationPrecedesDispatch ==
    [][/\ (dispatches' # dispatches \/ posts' # posts \/ wpc' # wpc)
            => /\ req["w1"].kind = "start"
               /\ result["w1"].kind = "verified"
               /\ req' = req
               /\ result' = result
       /\ (req'["w1"].kind = "start" /\ result'["w1"].kind \notin {"none", "verified"})
            => /\ pc'["w1"] = "done"
               /\ dispatches' = dispatches
               /\ posts' = posts
               /\ wpc' = wpc]_vars

C30_Witness ==
    /\ pc["w1"] = "await_dispatch"
    /\ req["w1"].kind = "start"
    /\ result["w1"].kind = "verified"
    /\ dispatches = 1
    /\ posts >= 1


\* the protected function ends an invocation by raising
FuncFails ==
    \E t \in Threads :
        /\ tpc[t] = "running"
        /\ tpc'[t] = "on_failure" \/ (tpc'[t] = "done" /\ outcome'[t] = "raised_other")

\* C29: the breaker has no terminal state: some step is always possible; and
\* when callers keep calling, time keeps advancing and from some point on no
\* invocation of the protected function fails, a breaker that is OPEN with a
\* recorded failure time is eventually CLOSED again.
C29_RecoveryLiveness ==
    /\ [](ENABLED <<NextCBLive>>_vars)
    /\ (<>[][~FuncFails]_vars)
          => ((state = "open" /\ last_failure_time # NoTime) ~> state = "closed")

C29_Witness ==
    /\ \E t \in Threads :
         /\ tpc[t] = "done"
         /\ outcome[t] = "returned"
         /\ observed[t].state = "open"
         /\ observed[t].since >= timeout
    /\ state = "closed"
    /\ last_failure_time # NoTime


C32_StatusProjection ==
    /\ [](\A w \in Workers :
            (/\ pc[w] = "done"
             /\ req[w].kind = "status"
             /\ users[req[w].user_id] # NoUser
             /\ can_access_system(users[req[w].user_id])
             /\ subs[req[w].user_id] # NoSub
             /\ subs[req[w].user_id].status = "active")
                => /\ result[w].kind = "verified"
                   /\ result[w].remaining_hours = subs[req[w].user_id].available_hours)
    /\ [][\A w \in Workers :
            req'[w].kind = "status"
                => subs' = subs /\ pending' = pending /\ txlog'[w] = << >>]_vars


\* C33: suspend() applied to a valid Subscription raises nothing and returns a
\* Subscription with status SUSPENDED, available_hours = 0 and consumed_hours
\* unchanged, which satisfies the ledger invariant.
C33_SuspendKeepsInvariant ==
    derived # NotCalledYet =>
        /\ derived # ValueError
        /\ derived.status = "suspended"
        /\ derived.available_hours = 0
        /\ derived.consumed_hours = entity.consumed_hours
        /\ validate_domain_invariants(derived)


\* C34: the callback handler calls the consumption update only for a callback
\* whose processing status is completed; serving a callback with any other
\* status, failed or unrecognised, makes no call of the update, debits nothing
\* and leaves the stored ledgers as they were.
C34_DebitOnlyOnCompletion ==
    [][(req'["w1"].kind = "callback" /\ req'["w1"].processing_status # "completed")
          => /\ ncalls'["w1"] = NoCalls
             /\ txlog'["w1"] = << >>
             /\ subs' = subs
             /\ pending' = pending
             /\ debited' = debited]_vars


\* TranscriptionServiceV2 configured with DeepgramProvider and a retrying strategy
RetryingDeepgramV2 ==
    /\ service = "TranscriptionServiceV2"
    /\ provider = "DeepgramProvider"
    /\ retry_strategy = "ExponentialBackoffStrategy"

\* C35: in TranscriptionServiceV2 with DeepgramProvider and a retrying
\* strategy, when the provider call of an attempt failed and the loop went on
\* (the breaker still CLOSED), the next attempt enters the breaker and so
\* reaches the provider's transcribe again.
C35_RetryReachesProvider ==
    [][(/\ RetryingDeepgramV2
        /\ rpc = "call"
        /\ rattempt >= 1
        /\ rlast \in {"raised_expected", "raised_other"}
        /\ state = "closed"
        /\ total_calls < MaxCalls
        /\ rpc' # rpc)
           => rpc' = "await" /\ rcalls' = rcalls + 1]_vars


\* C36: with a single caller using call() and reset() and failure_threshold
\* >= 1, outside the body of _on_failure: CLOSED implies failure_count <
\* failure_threshold, and OPEN or HALF_OPEN implies failure_count >=
\* failure_threshold with last_failure_time set.
C36_StateCountInvariant ==
    (failure_threshold >= 1 /\ tpc["t1"] # "threshold") =>
        /\ state = "closed" => failure_count < failure_threshold
        /\ state \in {"open", "half_open"}
             => failure_count >= failure_threshold /\ last_failure_time # NoTime

C36_Witness ==
    /\ tpc["t1"] = "done"
    /\ outcome["t1"] = "raised_other"
    /\ state = "half_open"
    /\ failure_count >= failure_threshold
    /\ successful_calls >= 1

====
